---- MODULE Spec2Model ----
(***************************************************************************)
(* Door locker security system: the Control ECU (security authority,       *)
(* src/Control/main.c) and the HMI ECU (src/main.c) exchanging single      *)
(* bytes over UART5.  A 32-bit EEPROM word is a tuple of its four bytes,   *)
(* most significant first.  Plain char is unsigned on the ARM EABI target, *)
(* so a received byte is a value 0..255.                                   *)
(***************************************************************************)
EXTENDS Integers, Sequences, FiniteSets, TLC

\* ---------------------------------------------------------------- constants
CMD_SETUP_PASSWORD == 1
CMD_VERIFY_PASSWORD == 2
CMD_CHANGE_PASSWORD == 3
CMD_SET_TIMEOUT == 4
CMD_OPEN_DOOR == 5
CMD_ERASE_EEPROM == 6
CMD_CHECK_PASSWORD == 7
CMD_TRIGGER_LOCKOUT == 8

RESP_PASSWORD_MATCH == 16
RESP_PASSWORD_MISMATCH == 17
RESP_TIMEOUT_SAVED == 18
RESP_DOOR_UNLOCKING == 19
RESP_DOOR_LOCKING == 20
RESP_DOOR_LOCKED == 21
RESP_SYSTEM_LOCKED == 22
RESP_EEPROM_ERASED == 23
RESP_PASSWORD_EXISTS == 24
RESP_NO_PASSWORD == 25
RESP_COUNTDOWN_START == 26
RESP_TIMEOUT == 255

PASSWORD_LENGTH == 5
MAX_ATTEMPTS == 3
DEFAULT_TIMEOUT == 5
LOCKOUT_DURATION == 10
EEPROM_PASSWORD_OFFSET == 0
EEPROM_TIMEOUT_OFFSET == 2
EEPROM_VALID_FLAG_OFFSET == 3
PASSWORD_VALID_MARKER == <<170, 85, 170, 85>>
TIMEOUT_MIN_SECONDS == 5
TIMEOUT_MAX_SECONDS == 30
CHAR_ZERO == 48

\* an unprogrammed (mass-erased) EEPROM word, 0xFFFFFFFF
ERASED_WORD == <<255, 255, 255, 255>>

\* ------------------------------------------------------------------- bounds
\* frames the arbitrary peer of SpecAuthority may transmit
MaxFrames == 3
\* commands the HMI may transmit in Spec
MaxCmds == 7

\* ------------------------------------------------------- inputs (small sets)
Pw(a, b, c, d, e) == <<a, b, c, d, e>>
PW_11111 == Pw(49, 49, 49, 49, 49)
PW_00000 == Pw(48, 48, 48, 48, 48)
PW_FFFFF == Pw(255, 255, 255, 255, 255)
PW_1NUL1 == Pw(49, 0, 49, 49, 49)

\* payloads an arbitrary peer may put on the wire
EnvPwds == {PW_11111, PW_00000, PW_FFFFF, PW_1NUL1}
\* timeout bytes an arbitrary peer may put on the wire
EnvTimeouts == {0, 5, 20, 255}
\* bytes an arbitrary peer may deliver late, inside a payload wait
EnvLateBytes == {49, 5}
\* passwords the user may type on the keypad (digits only)
UserPwds == {PW_11111, PW_00000}
\* values the potentiometer mapping may yield
UserTimeouts == {5, 20, 30}

VARIABLES
    eeprom,             \* block 0, word offsets 0..3
    g_storedPassword,   \* 5 characters; g_storedPassword[5] of the C array is always NUL
    g_autoLockTimeout,
    apc,                \* position of the Control ECU
    op,                 \* opcode being handled (or handled last)
    pw1, pw2,           \* the handler's password buffers
    cnt,                \* loop counter of the countdown / the alarm
    motor,              \* "stop", "cw", "ccw"
    h2a,                \* bytes in flight HMI -> Control
    a2h,                \* bytes in flight Control -> HMI, each tagged with its origin
    out,                \* history: bytes emitted for the opcode dispatched last
    pre,                \* history: credential, timeout, storage and receive queue at the last dispatch
    prevAuth,           \* history: the command completed before this one matched the credential
    opc,                \* history: number of the HMI command the dispatched opcode came with
    lastSetup,          \* history: the credential set up last and still in force
    frames,             \* number of frames sent by the arbitrary peer
    hpc,                \* position of the HMI ECU
    attempts,           \* the dialog's local attempts
    hcmd,               \* number of commands the HMI has sent
    dlg,                \* history: the dialog the HMI is in
    dlgResp,            \* history: bytes obtained as answers to the dialog's password command
    dlgLock,            \* history: CMD_TRIGGER_LOCKOUT bytes sent in the dialog
    taken,              \* history: the byte the HMI obtained last, and where
    fin,                \* the input a storage codec function is applied to
    fout,               \* its result
    eefault             \* the EEPROM controller of this device can fail a program or erase

hvars == <<hpc, attempts, hcmd, dlg, dlgResp, dlgLock, taken>>
avars == <<eeprom, g_storedPassword, g_autoLockTimeout, apc, op, pw1, pw2, cnt,
           motor, out, pre, prevAuth, opc, lastSetup>>
pvars == <<fin, fout, eefault>>
vars == <<avars, h2a, a2h, frames, hvars, pvars>>

\* ----------------------------------------------------------- C string helpers
\* index of the first NUL of a 5-character buffer followed by its terminator
FirstNul(s) ==
    IF \E i \in 1..Len(s) : s[i] = 0
    THEN CHOOSE i \in 1..Len(s) : s[i] = 0 /\ \A j \in 1..(i - 1) : s[j] # 0
    ELSE Len(s) + 1

CStr(s) == SubSeq(s, 1, FirstNul(s) - 1)

\* strcmp: 0 iff the two C strings are equal
strcmp(a, b) == IF CStr(a) = CStr(b) THEN 0 ELSE 1

\* strcpy into a 5-character buffer: copies up to and including the first NUL
strcpy(dst, src) ==
    [i \in 1..PASSWORD_LENGTH |->
        IF i < FirstNul(src) THEN src[i]
        ELSE IF i = FirstNul(src) THEN 0
        ELSE dst[i]]

VerifyPassword(password) == strcmp(password, g_storedPassword) = 0

\* ------------------------------------------------------------ persistence
PackWord0(p) == <<p[1], p[2], p[3], p[4]>>
PackWord1LowByte(p) == <<0, 0, 0, p[5]>>

PackWord1(p) == <<p[5], 0, 0, 0>>
UnpackPassword(data1, data2) == <<data1[1], data1[2], data1[3], data1[4], data2[1]>>

LoadPasswordLowByte(ee) ==
    <<ee[EEPROM_PASSWORD_OFFSET][1], ee[EEPROM_PASSWORD_OFFSET][2],
      ee[EEPROM_PASSWORD_OFFSET][3], ee[EEPROM_PASSWORD_OFFSET][4],
      ee[EEPROM_PASSWORD_OFFSET + 1][4]>>

LoadPassword(ee) == UnpackPassword(ee[EEPROM_PASSWORD_OFFSET], ee[EEPROM_PASSWORD_OFFSET + 1])

LoadTimeout(ee) ==
    LET t == ee[EEPROM_TIMEOUT_OFFSET][4]
    IN  IF t < 5 \/ t > 30 THEN DEFAULT_TIMEOUT ELSE t

IsPasswordValidHighHalf(ee) ==
    /\ ee[EEPROM_VALID_FLAG_OFFSET][1] = PASSWORD_VALID_MARKER[1]
    /\ ee[EEPROM_VALID_FLAG_OFFSET][2] = PASSWORD_VALID_MARKER[2]

IsPasswordValid(ee) == ee[EEPROM_VALID_FLAG_OFFSET] = PASSWORD_VALID_MARKER

EEPROM_MassErase == [o \in 0..3 |-> ERASED_WORD]

\* SavePassword: three word writes (the last one is MarkPasswordAsValid)
SavePassword(ee, password) ==
    [ee EXCEPT ![EEPROM_PASSWORD_OFFSET] = PackWord0(password),
               ![EEPROM_PASSWORD_OFFSET + 1] = PackWord1(password),
               ![EEPROM_VALID_FLAG_OFFSET] = PASSWORD_VALID_MARKER]

EEPROM_BLOCK_SIZE == 16
EEPROM_WORD_SIZE == 4

\* the byte address of a word
CalculateAddress(block, offset) ==
    (block * EEPROM_BLOCK_SIZE * EEPROM_WORD_SIZE) + (offset * EEPROM_WORD_SIZE)

\* EEPROM_WriteWord: the word at CalculateAddress(0, offset) is programmed
EEPROM_WriteWord(ee, offset, data) == [ee EXCEPT ![offset] = data]

\* EEPROMProgram / EEPROMMassErase of the EEPROM controller: what the array
\* holds afterwards.  On a failure it keeps what it held and the wrapper returns
\* EEPROM_ERROR, which no caller in the Control ECU looks at
Stored(ee, written) == IF eefault THEN {ee, written} ELSE {written}

SaveTimeoutAtMarker(ee, timeout) ==
    [ee EXCEPT ![EEPROM_VALID_FLAG_OFFSET] = <<0, 0, 0, timeout>>]

\* SaveTimeout: one word write
SaveTimeout(ee, timeout) ==
    [ee EXCEPT ![EEPROM_TIMEOUT_OFFSET] = <<0, 0, 0, timeout>>]

\* ------------------------------------------------------------------ channel
\* a byte on the wire Control -> HMI; k and c are history: "resp" for a response
\* code, "count" for a countdown value, and the number of the command it answers
Tag(b, k, c) == [b |-> b, k |-> k, c |-> c]
\* the bytes of a frame HMI -> Control, each with the number of its command
Frame(f, c) == [i \in 1..Len(f) |-> [b |-> f[i], c |-> c]]
NoByte == [b |-> 0, k |-> "none", c |-> 0, at |-> "none", for |-> 0]
\* history: p is the payload of the last Setup-password answered PasswordMatch
\* (empty once a later credential save has begun or an Erase has succeeded),
\* rebooted tells that the Control ECU has booted since
NoSetup == [p |-> <<>>, rebooted |-> FALSE]
NoSnapshot == [cred |-> <<>>, T |-> 0, ee |-> <<>>, rx |-> <<>>, fill |-> 0]

SendCountdownOffByOne(seconds) == seconds - 1

SendCountdown(seconds) == seconds

\* no codec function under test
NoInput == [f |-> "none"]
NoResult == [set |-> FALSE]

\* what the EEPROM may hold at power-up: unprogrammed, or the credential and
\* timeout an earlier session saved
PowerUpImages ==
    {EEPROM_MassErase}
    \cup {SaveTimeout(SavePassword(EEPROM_MassErase, PW_11111), t) : t \in {5, 20}}

\* main() up to the main loop, for the storage image found: LoadPassword,
\* LoadTimeout; the HMI is at the start of its own main()
InitECUs ==
    /\ g_storedPassword = LoadPassword(eeprom)
    /\ g_autoLockTimeout = LoadTimeout(eeprom)
    /\ apc = "idle"
    /\ op = 0
    /\ pw1 = <<>>
    /\ pw2 = <<>>
    /\ cnt = 0
    /\ motor = "stop"
    /\ h2a = <<>>
    /\ a2h = <<>>
    /\ out = <<>>
    /\ pre = NoSnapshot
    /\ prevAuth = FALSE
    /\ opc = 0
    /\ lastSetup = IF IsPasswordValid(eeprom)
                   THEN [p |-> LoadPassword(eeprom), rebooted |-> TRUE]
                   ELSE NoSetup
    /\ frames = 0
    /\ hpc = "boot"
    /\ attempts = 0
    /\ hcmd = 0
    /\ dlg = "none"
    /\ dlgResp = <<>>
    /\ dlgLock = 0
    /\ taken = NoByte

Init ==
    /\ eeprom \in PowerUpImages
    /\ InitECUs
    /\ fin = NoInput
    /\ fout = NoResult
    /\ eefault = FALSE

\* UART5_SendChar on the Control ECU
Emit(b, k, c) ==
    /\ a2h' = Append(a2h, Tag(b, k, c))
    /\ out' = Append(out, b)

\* history: the state at dispatch; rx is what is queued behind the opcode byte,
\* fill counts the payload slots of the command filled with their default
Snapshot == [cred |-> g_storedPassword, T |-> g_autoLockTimeout, ee |-> eeprom,
             rx |-> [i \in 1..(Len(h2a) - 1) |-> h2a[i + 1].b], fill |-> 0]

PayloadOps == {CMD_SETUP_PASSWORD, CMD_CHANGE_PASSWORD, CMD_SET_TIMEOUT,
               CMD_OPEN_DOOR, CMD_ERASE_EEPROM}

\* -------------------------------------------------------------- Control ECU
HandleCheckPasswordAlwaysExists(ee) == RESP_PASSWORD_EXISTS

\* the byte HandleCheckPassword sends
HandleCheckPassword(ee) ==
    IF IsPasswordValid(ee) THEN RESP_PASSWORD_EXISTS ELSE RESP_NO_PASSWORD

MainLoopAnswersUnknown ==
    /\ apc = "idle"
    /\ h2a # <<>>
    /\ LET command == Head(h2a).b
           c == Head(h2a).c IN
        /\ h2a' = Tail(h2a)
        /\ opc' = c
        /\ op' = command
        /\ pre' = Snapshot
        /\ IF command = CMD_CHECK_PASSWORD
              THEN \* HandleCheckPassword
                   /\ a2h' = Append(a2h, Tag(HandleCheckPassword(eeprom), "resp", c))
                   /\ out' = <<HandleCheckPassword(eeprom)>>
                   /\ apc' = "done"
                   /\ prevAuth' = FALSE
                   /\ UNCHANGED cnt
              ELSE IF command = CMD_TRIGGER_LOCKOUT
              THEN \* HandleTriggerLockout -> TriggerLockout
                   /\ a2h' = Append(a2h, Tag(RESP_SYSTEM_LOCKED, "resp", c))
                   /\ out' = <<RESP_SYSTEM_LOCKED>>
                   /\ apc' = "alarm"
                   /\ cnt' = 0
                   /\ prevAuth' = FALSE
              ELSE IF command \in PayloadOps
              THEN /\ apc' = "recv"
                   /\ UNCHANGED <<a2h, out, cnt, prevAuth>>
              ELSE /\ a2h' = Append(a2h, Tag(RESP_PASSWORD_MISMATCH, "resp", c))
                   /\ out' = <<RESP_PASSWORD_MISMATCH>>
                   /\ apc' = "done"
                   /\ prevAuth' = FALSE
                   /\ UNCHANGED cnt
    /\ UNCHANGED <<eeprom, g_storedPassword, g_autoLockTimeout, pw1, pw2, motor, frames, lastSetup, hvars, pvars>>

\* main loop: one byte is read and dispatched; CMD_CHECK_PASSWORD and
\* CMD_TRIGGER_LOCKOUT read no payload
MainLoop ==
    /\ apc = "idle"
    /\ h2a # <<>>
    /\ LET command == Head(h2a).b
           c == Head(h2a).c IN
        /\ h2a' = Tail(h2a)
        /\ opc' = c
        /\ op' = command
        /\ pre' = Snapshot
        /\ IF command = CMD_CHECK_PASSWORD
              THEN \* HandleCheckPassword
                   /\ a2h' = Append(a2h, Tag(HandleCheckPassword(eeprom), "resp", c))
                   /\ out' = <<HandleCheckPassword(eeprom)>>
                   /\ apc' = "done"
                   /\ prevAuth' = FALSE
                   /\ UNCHANGED cnt
              ELSE IF command = CMD_TRIGGER_LOCKOUT
              THEN \* HandleTriggerLockout -> TriggerLockout
                   /\ a2h' = Append(a2h, Tag(RESP_SYSTEM_LOCKED, "resp", c))
                   /\ out' = <<RESP_SYSTEM_LOCKED>>
                   /\ apc' = "alarm"
                   /\ cnt' = 0
                   /\ prevAuth' = FALSE
              ELSE IF command \in PayloadOps
              THEN /\ apc' = "recv"
                   /\ UNCHANGED <<a2h, out, cnt, prevAuth>>
              ELSE \* default: unknown command - ignore
                   /\ apc' = "done"
                   /\ prevAuth' = FALSE
                   /\ UNCHANGED <<a2h, out, cnt>>
    /\ UNCHANGED <<eeprom, g_storedPassword, g_autoLockTimeout, pw1, pw2, motor, frames, lastSetup, hvars, pvars>>

\* the handler has returned: its locals are gone, DelayMs(10), next iteration
LoopDelay ==
    /\ apc = "done"
    /\ apc' = "idle"
    /\ op' = 0
    /\ pw1' = <<>>
    /\ pw2' = <<>>
    /\ cnt' = 0
    /\ out' = <<>>
    /\ pre' = NoSnapshot
    /\ opc' = 0
    /\ UNCHANGED <<eeprom, g_storedPassword, g_autoLockTimeout, motor, h2a, a2h,
                   prevAuth, frames, lastSetup, hvars, pvars>>

AlarmCycleOneShort ==
    /\ apc = "alarm"
    /\ cnt' = cnt + 1
    /\ apc' = IF cnt + 1 < LOCKOUT_DURATION - 1 THEN "alarm" ELSE "done"
    /\ UNCHANGED <<eeprom, g_storedPassword, g_autoLockTimeout, op, pw1, pw2, motor,
                   h2a, a2h, out, pre, prevAuth, opc, frames, lastSetup, hvars, pvars>>

\* the buzzer loop of TriggerLockout: LOCKOUT_DURATION beep/silence cycles
AlarmCycle ==
    /\ apc = "alarm"
    /\ cnt' = cnt + 1
    /\ apc' = IF cnt + 1 < LOCKOUT_DURATION THEN "alarm" ELSE "done"
    /\ UNCHANGED <<eeprom, g_storedPassword, g_autoLockTimeout, op, pw1, pw2, motor,
                   h2a, a2h, out, pre, prevAuth, opc, frames, lastSetup, hvars, pvars>>

ReceivePasswordBlocking ==
    /\ apc = "recv"
    /\ h2a # <<>>
    /\ LET c == IF h2a # <<>> THEN Head(h2a).b ELSE CHAR_ZERO IN
        IF Len(pw1) < PASSWORD_LENGTH
        THEN pw1' = Append(pw1, c) /\ pw2' = pw2
        ELSE /\ op = CMD_SETUP_PASSWORD
             /\ Len(pw2) < PASSWORD_LENGTH
             /\ pw2' = Append(pw2, c)
             /\ pw1' = pw1
    /\ h2a' = IF h2a # <<>> THEN Tail(h2a) ELSE h2a
    /\ pre' = IF h2a # <<>> THEN pre ELSE [pre EXCEPT !.fill = @ + 1]
    /\ UNCHANGED <<eeprom, g_storedPassword, g_autoLockTimeout, apc, op, cnt, motor,
                   a2h, out, prevAuth, opc, frames, lastSetup, hvars, pvars>>

\* one slot of ReceivePassword: the byte received within the bounded wait, or
\* the default character when none arrived
ReceivePassword ==
    /\ apc = "recv"
    /\ LET c == IF h2a # <<>> THEN Head(h2a).b ELSE CHAR_ZERO IN
        IF Len(pw1) < PASSWORD_LENGTH
        THEN pw1' = Append(pw1, c) /\ pw2' = pw2
        ELSE /\ op = CMD_SETUP_PASSWORD
             /\ Len(pw2) < PASSWORD_LENGTH
             /\ pw2' = Append(pw2, c)
             /\ pw1' = pw1
    /\ h2a' = IF h2a # <<>> THEN Tail(h2a) ELSE h2a
    /\ pre' = IF h2a # <<>> THEN pre ELSE [pre EXCEPT !.fill = @ + 1]
    /\ UNCHANGED <<eeprom, g_storedPassword, g_autoLockTimeout, apc, op, cnt, motor,
                   a2h, out, prevAuth, opc, frames, lastSetup, hvars, pvars>>

\* ReceivePassword twice, then the comparison; SavePassword follows on equality
HandleSetupPassword ==
    /\ apc = "recv"
    /\ op = CMD_SETUP_PASSWORD
    /\ Len(pw1) = PASSWORD_LENGTH
    /\ Len(pw2) = PASSWORD_LENGTH
    /\ IF strcmp(pw1, pw2) = 0
          THEN /\ apc' = "save0"
               /\ lastSetup' = NoSetup
               /\ UNCHANGED <<a2h, out>>
          ELSE /\ Emit(RESP_PASSWORD_MISMATCH, "resp", opc)
               /\ apc' = "done"
               /\ UNCHANGED lastSetup
    /\ UNCHANGED <<eeprom, g_storedPassword, g_autoLockTimeout, op, pw1, pw2, cnt, motor,
                   h2a, pre, prevAuth, opc, frames, hvars, pvars>>

\* SavePassword: the three word writes, one after the other
SavePassword_Write ==
    /\ apc \in {"save0", "save1", "save2"}
    /\ eeprom' \in Stored(eeprom,
                  CASE apc = "save0" ->
                        EEPROM_WriteWord(eeprom, EEPROM_PASSWORD_OFFSET, PackWord0(pw1))
                    [] apc = "save1" ->
                        EEPROM_WriteWord(eeprom, EEPROM_PASSWORD_OFFSET + 1, PackWord1(pw1))
                    [] apc = "save2" ->
                        EEPROM_WriteWord(eeprom, EEPROM_VALID_FLAG_OFFSET, PASSWORD_VALID_MARKER))
    /\ apc' = CASE apc = "save0" -> "save1" [] apc = "save1" -> "save2" [] apc = "save2" -> "saved"
    /\ UNCHANGED <<g_storedPassword, g_autoLockTimeout, op, pw1, pw2, cnt, motor,
                   h2a, a2h, out, pre, prevAuth, opc, frames, lastSetup, hvars, pvars>>

SavePassword_DoneChecked ==
    /\ apc = "saved"
    /\ IF eeprom = SavePassword(pre.ee, pw1)
          THEN /\ g_storedPassword' = strcpy(g_storedPassword, pw1)
               /\ Emit(RESP_PASSWORD_MATCH, "resp", opc)
               /\ lastSetup' = [p |-> pw1, rebooted |-> FALSE]
          ELSE /\ Emit(RESP_PASSWORD_MISMATCH, "resp", opc)
               /\ UNCHANGED <<g_storedPassword, lastSetup>>
    /\ prevAuth' = FALSE
    /\ apc' = "done"
    /\ UNCHANGED <<eeprom, g_autoLockTimeout, op, pw1, pw2, cnt, motor,
                   h2a, pre, opc, frames, hvars, pvars>>

\* the end of SavePassword (strcpy) and the response of HandleSetupPassword
SavePassword_Done ==
    /\ apc = "saved"
    /\ g_storedPassword' = strcpy(g_storedPassword, pw1)
    /\ Emit(RESP_PASSWORD_MATCH, "resp", opc)
    /\ prevAuth' = FALSE
    /\ lastSetup' = [p |-> pw1, rebooted |-> FALSE]
    /\ apc' = "done"
    /\ UNCHANGED <<eeprom, g_autoLockTimeout, op, pw1, pw2, cnt, motor,
                   h2a, pre, opc, frames, hvars, pvars>>

HandleChangePassword ==
    /\ apc = "recv"
    /\ op = CMD_CHANGE_PASSWORD
    /\ Len(pw1) = PASSWORD_LENGTH
    /\ IF VerifyPassword(pw1)
          THEN Emit(RESP_PASSWORD_MATCH, "resp", opc) /\ prevAuth' = TRUE
          ELSE Emit(RESP_PASSWORD_MISMATCH, "resp", opc) /\ prevAuth' = FALSE
    /\ apc' = "done"
    /\ UNCHANGED <<eeprom, g_storedPassword, g_autoLockTimeout, op, pw1, pw2, cnt, motor,
                   h2a, pre, opc, frames, lastSetup, hvars, pvars>>

\* after the password, the timeout byte is awaited (bounded) and read, or
\* defaulted, before the password is verified
HandleSetTimeout ==
    /\ apc = "recv"
    /\ op = CMD_SET_TIMEOUT
    /\ Len(pw1) = PASSWORD_LENGTH
    /\ LET timeout == IF h2a # <<>> THEN Head(h2a).b ELSE DEFAULT_TIMEOUT IN
        /\ h2a' = IF h2a # <<>> THEN Tail(h2a) ELSE h2a
        /\ pre' = IF h2a # <<>> THEN pre ELSE [pre EXCEPT !.fill = @ + 1]
        /\ IF VerifyPassword(pw1)
              THEN /\ eeprom' \in Stored(eeprom, SaveTimeout(eeprom, timeout))
                   /\ g_autoLockTimeout' = timeout
                   /\ Emit(RESP_TIMEOUT_SAVED, "resp", opc)
              ELSE /\ Emit(RESP_PASSWORD_MISMATCH, "resp", opc)
                   /\ UNCHANGED <<eeprom, g_autoLockTimeout>>
    /\ apc' = "done"
    /\ prevAuth' = FALSE
    /\ UNCHANGED <<g_storedPassword, op, pw1, pw2, cnt, motor, opc, frames, lastSetup, hvars, pvars>>

HandleOpenDoor ==
    /\ apc = "recv"
    /\ op = CMD_OPEN_DOOR
    /\ Len(pw1) = PASSWORD_LENGTH
    /\ IF VerifyPassword(pw1)
          THEN Emit(RESP_PASSWORD_MATCH, "resp", opc) /\ apc' = "unlock"
          ELSE Emit(RESP_PASSWORD_MISMATCH, "resp", opc) /\ apc' = "done"
    /\ prevAuth' = FALSE
    /\ UNCHANGED <<eeprom, g_storedPassword, g_autoLockTimeout, op, pw1, pw2, cnt, motor,
                   h2a, pre, opc, frames, lastSetup, hvars, pvars>>

\* PerformDoorOperation, step 1: DoorUnlocking, motor clockwise
DoorUnlock ==
    /\ apc = "unlock"
    /\ Emit(RESP_DOOR_UNLOCKING, "resp", opc)
    /\ motor' = "cw"
    /\ apc' = "unlocking"
    /\ UNCHANGED <<eeprom, g_storedPassword, g_autoLockTimeout, op, pw1, pw2, cnt,
                   h2a, pre, prevAuth, opc, frames, lastSetup, hvars, pvars>>

\* step 2: motor stopped, CountdownStart, i = g_autoLockTimeout
DoorOpen ==
    /\ apc = "unlocking"
    /\ motor' = "stop"
    /\ Emit(RESP_COUNTDOWN_START, "resp", opc)
    /\ cnt' = g_autoLockTimeout
    /\ apc' = "countdown"
    /\ UNCHANGED <<eeprom, g_storedPassword, g_autoLockTimeout, op, pw1, pw2,
                   h2a, pre, prevAuth, opc, frames, lastSetup, hvars, pvars>>

DoorCountdownAbortOnData ==
    /\ apc = "countdown"
    /\ cnt > 0
    /\ IF h2a # <<>>
          THEN apc' = "done" /\ UNCHANGED <<a2h, out, cnt>>
          ELSE Emit(SendCountdown(cnt), "count", opc) /\ cnt' = cnt - 1 /\ apc' = apc
    /\ UNCHANGED <<eeprom, g_storedPassword, g_autoLockTimeout, op, pw1, pw2, motor,
                   h2a, pre, prevAuth, opc, frames, lastSetup, hvars, pvars>>

\* for (i = g_autoLockTimeout; i > 0; i--) SendCountdown(i)
DoorCountdown ==
    /\ apc = "countdown"
    /\ cnt > 0
    /\ Emit(SendCountdown(cnt), "count", opc)
    /\ cnt' = cnt - 1
    /\ UNCHANGED <<eeprom, g_storedPassword, g_autoLockTimeout, apc, op, pw1, pw2, motor,
                   h2a, pre, prevAuth, opc, frames, lastSetup, hvars, pvars>>

\* step 3: DoorLocking, motor counter-clockwise
DoorLock ==
    /\ apc = "countdown"
    /\ cnt = 0
    /\ Emit(RESP_DOOR_LOCKING, "resp", opc)
    /\ motor' = "ccw"
    /\ apc' = "locking"
    /\ UNCHANGED <<eeprom, g_storedPassword, g_autoLockTimeout, op, pw1, pw2, cnt,
                   h2a, pre, prevAuth, opc, frames, lastSetup, hvars, pvars>>

DoorLockedNoStop ==
    /\ apc = "locking"
    /\ Emit(RESP_DOOR_LOCKED, "resp", opc)
    /\ apc' = "done"
    /\ UNCHANGED <<eeprom, g_storedPassword, g_autoLockTimeout, op, pw1, pw2, cnt, motor,
                   h2a, pre, prevAuth, opc, frames, lastSetup, hvars, pvars>>

\* motor stopped, DoorLocked
DoorLocked ==
    /\ apc = "locking"
    /\ motor' = "stop"
    /\ Emit(RESP_DOOR_LOCKED, "resp", opc)
    /\ apc' = "done"
    /\ UNCHANGED <<eeprom, g_storedPassword, g_autoLockTimeout, op, pw1, pw2, cnt,
                   h2a, pre, prevAuth, opc, frames, lastSetup, hvars, pvars>>

HandleEraseEEPROM ==
    /\ apc = "recv"
    /\ op = CMD_ERASE_EEPROM
    /\ Len(pw1) = PASSWORD_LENGTH
    /\ IF VerifyPassword(pw1)
          THEN /\ eeprom' \in Stored(eeprom, EEPROM_MassErase)
               /\ g_storedPassword' = strcpy(g_storedPassword, PW_00000)
               /\ g_autoLockTimeout' = DEFAULT_TIMEOUT
               /\ Emit(RESP_EEPROM_ERASED, "resp", opc)
               /\ prevAuth' = TRUE
               /\ lastSetup' = NoSetup
          ELSE /\ Emit(RESP_PASSWORD_MISMATCH, "resp", opc)
               /\ prevAuth' = FALSE
               /\ UNCHANGED <<eeprom, g_storedPassword, g_autoLockTimeout, lastSetup>>
    /\ apc' = "done"
    /\ UNCHANGED <<op, pw1, pw2, cnt, motor, h2a, pre, opc, frames, hvars, pvars>>

Control ==
    \/ MainLoop
    \/ LoopDelay
    \/ AlarmCycle
    \/ ReceivePassword
    \/ HandleSetupPassword
    \/ SavePassword_Write
    \/ SavePassword_Done
    \/ HandleChangePassword
    \/ HandleSetTimeout
    \/ HandleOpenDoor
    \/ DoorUnlock
    \/ DoorOpen
    \/ DoorCountdown
    \/ DoorLock
    \/ DoorLocked
    \/ HandleEraseEEPROM

\* ------------------------------------------------------- an arbitrary peer
EnvFrames ==
    {<<CMD_CHECK_PASSWORD, CMD_CHECK_PASSWORD>>,
     <<CMD_TRIGGER_LOCKOUT, CMD_CHECK_PASSWORD>>,
     <<CMD_VERIFY_PASSWORD>>}
    \cup {<<CMD_SETUP_PASSWORD>> \o p \o q : p \in EnvPwds, q \in EnvPwds}
    \cup {<<o>> \o p : o \in {CMD_CHANGE_PASSWORD, CMD_OPEN_DOOR, CMD_ERASE_EEPROM}, p \in EnvPwds}
    \cup {<<CMD_SET_TIMEOUT>> \o p \o <<t>> : p \in EnvPwds, t \in EnvTimeouts}
    \cup {<<CMD_SET_TIMEOUT>> \o p \o <<t, CMD_CHECK_PASSWORD>> : p \in EnvPwds, t \in EnvTimeouts}

\* the lengths at which the peer may cut a frame short
TruncLens(f) == {n \in {1, 3, Len(f) - 1, Len(f)} : n >= 1 /\ n <= Len(f)}

\* the peer transmits a frame, or only a leading part of one, having read
\* what the Control ECU has sent so far
EnvSend ==
    /\ frames < MaxFrames
    /\ h2a = <<>>
    /\ apc = "idle"
    /\ \E f \in EnvFrames : \E n \in TruncLens(f) : h2a' = Frame(SubSeq(f, 1, n), 0)
    /\ frames' = frames + 1
    /\ a2h' = <<>>
    /\ UNCHANGED <<avars, pvars, hvars>>

\* a byte of the peer arrives while the Control ECU waits for a payload slot
EnvSendLate ==
    /\ frames < MaxFrames
    /\ h2a = <<>>
    /\ apc = "recv"
    /\ \E b \in EnvLateBytes : h2a' = Frame(<<b>>, 0)
    /\ frames' = frames + 1
    /\ UNCHANGED <<avars, pvars, a2h, hvars>>

NextAuthority == Control \/ EnvSend \/ EnvSendLate

SpecAuthority == Init /\ [][NextAuthority]_vars

\* timeout values a peer may send with Set-timeout, all inside [5,30]
LateTimeouts == {5, 6, 7, 8, 20, 30}

\* The timeout byte of a Set-timeout arrives after HandleSetTimeout's wait for
\* it has run out: the handler has used DEFAULT_TIMEOUT for it, has answered
\* and returned.  The byte carries the command number -1 to tell it apart.
EnvSendTimeoutLate ==
    /\ apc = "done"
    /\ op = CMD_SET_TIMEOUT
    /\ Len(pre.rx) = PASSWORD_LENGTH
    /\ pre.fill = 1
    /\ h2a = <<>>
    /\ \E t \in LateTimeouts : h2a' = Frame(<<t>>, -1)
    /\ UNCHANGED <<avars, pvars, a2h, frames, hvars>>

NextLate == NextAuthority \/ EnvSendTimeoutLate

SpecLate == Init /\ [][NextLate]_vars

\* The Control ECU on a device whose EEPROM controller can fail
InitFaulty ==
    /\ eeprom \in PowerUpImages
    /\ InitECUs
    /\ fin = NoInput
    /\ fout = NoResult
    /\ eefault = TRUE

SpecFaulty == InitFaulty /\ [][NextAuthority]_vars

\* bytes the peer may transmit while the Control ECU is busy
EnvBusyBytes == {CMD_CHECK_PASSWORD, CMD_TRIGGER_LOCKOUT}
\* the positions of the door sequence and of the lockout alarm
BusyStates == {"unlock", "unlocking", "countdown", "locking", "alarm"}

\* a byte of the peer arrives while the door sequence or the alarm runs
EnvSendBusy ==
    /\ frames < MaxFrames
    /\ apc \in BusyStates
    /\ \E b \in EnvBusyBytes : h2a' = h2a \o Frame(<<b>>, 0)
    /\ frames' = frames + 1
    /\ UNCHANGED <<avars, pvars, a2h, hvars>>

NextBusy == NextAuthority \/ EnvSendBusy

SpecBusy == Init /\ [][NextBusy]_vars

\* the Control ECU runs on its own clock: whenever it has a step to take it
\* takes one
SpecAuthorityLive == SpecAuthority /\ WF_vars(Control)

\* ------------------------------------------------- power loss and reboot
\* power is lost at any moment: the motor stops, the receive FIFO is gone;
\* the EEPROM keeps the words written so far
PowerCycle ==
    /\ apc # "boot"
    /\ apc' = "boot"
    /\ motor' = "stop"
    /\ h2a' = <<>>
    /\ UNCHANGED <<eeprom, g_storedPassword, g_autoLockTimeout, op, pw1, pw2, cnt,
                   a2h, out, pre, prevAuth, opc, frames, lastSetup, hvars, pvars>>

\* main() from its start to the main loop: LoadPassword, LoadTimeout
Boot ==
    /\ apc = "boot"
    /\ g_storedPassword' = LoadPassword(eeprom)
    /\ g_autoLockTimeout' = LoadTimeout(eeprom)
    /\ apc' = "idle"
    /\ op' = 0
    /\ pw1' = <<>>
    /\ pw2' = <<>>
    /\ cnt' = 0
    /\ out' = <<>>
    /\ pre' = NoSnapshot
    /\ prevAuth' = FALSE
    /\ opc' = 0
    /\ lastSetup' = IF lastSetup.p # <<>> THEN [lastSetup EXCEPT !.rebooted = TRUE]
                     ELSE lastSetup
    /\ UNCHANGED <<eeprom, motor, h2a, a2h, frames, hvars, pvars>>

NextPower == NextAuthority \/ PowerCycle \/ Boot

SpecPower == Init /\ [][NextPower]_vars

\* ------------------------------------------------- storage codec functions
\* digits the credentials under test are made of
CodecDigits == {48, 49, 53, 57}
CodecCredentials ==
    {Pw(a, b, c, d, e) : a \in CodecDigits, b \in CodecDigits, c \in CodecDigits,
                         d \in CodecDigits, e \in CodecDigits}
\* what the three low bytes of credential word 1 may hold when it is read
CodecLowBytes == {<<0, 0, 0>>, <<255, 255, 255>>, <<49, 50, 51>>}

\* stored timeout words: every word below 256, and words with high bytes set
TimeoutWords ==
    {<<0, 0, 0, b>> : b \in 0..255}
    \cup {<<a, b, c, d>> : a \in {0, 255}, b \in {0, 255}, c \in {0, 1, 255},
                            d \in {0, 4, 5, 10, 30, 31, 255}}

\* bit b of byte x inverted
FlipBit(x, b) == IF (x \div (2 ^ b)) % 2 = 1 THEN x - 2 ^ b ELSE x + 2 ^ b
\* the 32 words that differ from the sentinel in exactly one bit
SingleBitCorruptions ==
    {[PASSWORD_VALID_MARKER EXCEPT ![i] = FlipBit(PASSWORD_VALID_MARKER[i], b)] :
        i \in 1..4, b \in 0..7}
MarkerWords ==
    {PASSWORD_VALID_MARKER, ERASED_WORD, <<0, 0, 0, 0>>, <<85, 170, 85, 170>>}
    \cup SingleBitCorruptions

CodecInputs ==
    {[f |-> "SavePassword", C |-> c, low |-> l] : c \in CodecCredentials, l \in CodecLowBytes}
    \cup {[f |-> "LoadTimeout", w |-> w] : w \in TimeoutWords}
    \cup {[f |-> "IsPasswordValid", w |-> w] : w \in MarkerWords}

InitCodec ==
    /\ eeprom = EEPROM_MassErase
    /\ InitECUs
    /\ fin \in CodecInputs
    /\ fout = NoResult
    /\ eefault = FALSE

\* SavePassword packs the credential into the two words; LoadPassword unpacks
\* them, whatever the three low bytes of word 1 hold by then
Apply_SaveLoadPassword ==
    /\ fin.f = "SavePassword"
    /\ ~fout.set
    /\ LET saved == SavePassword(EEPROM_MassErase, fin.C)
           data2 == saved[EEPROM_PASSWORD_OFFSET + 1]
           read == EEPROM_WriteWord(saved, EEPROM_PASSWORD_OFFSET + 1,
                                    <<data2[1]>> \o fin.low)
       IN  fout' = [set |-> TRUE, v |-> LoadPassword(read)]
    /\ UNCHANGED <<avars, h2a, a2h, frames, hvars, fin, eefault>>

\* LoadTimeout on a stored timeout word
Apply_LoadTimeout ==
    /\ fin.f = "LoadTimeout"
    /\ ~fout.set
    /\ fout' = [set |-> TRUE, v |-> LoadTimeout(EEPROM_WriteWord(EEPROM_MassErase, EEPROM_TIMEOUT_OFFSET, fin.w))]
    /\ UNCHANGED <<avars, h2a, a2h, frames, hvars, fin, eefault>>

\* IsPasswordValid on a stored marker word
Apply_IsPasswordValid ==
    /\ fin.f = "IsPasswordValid"
    /\ ~fout.set
    /\ fout' = [set |-> TRUE, v |-> IsPasswordValid(EEPROM_WriteWord(EEPROM_MassErase, EEPROM_VALID_FLAG_OFFSET, fin.w))]
    /\ UNCHANGED <<avars, h2a, a2h, frames, hvars, fin, eefault>>

NextCodec == Apply_SaveLoadPassword \/ Apply_LoadTimeout \/ Apply_IsPasswordValid

SpecCodec == InitCodec /\ [][NextCodec]_vars

\* ------------------------------------------------------------------ HMI ECU
\* UART5_SendChar / SendPassword on the HMI: the bytes of one command; a Control
\* ECU without power receives none of them
HmiSend(f) ==
    /\ hcmd < MaxCmds
    /\ h2a' = IF apc = "off" THEN h2a ELSE h2a \o Frame(f, hcmd + 1)
    /\ hcmd' = hcmd + 1

\* Scheduling: the Control ECU polls every 10 ms and its steps are taken first;
\* the HMI, paced by keypad entry and display delays, takes a step when the
\* Control ECU is back in its main loop with nothing to read.  The two ECUs
\* share nothing but the two FIFO queues, so each ECU reads the same bytes in
\* the same order as under any other interleaving.  A Control ECU without
\* power never reads and never answers.
HmiTurn == (apc = "idle" /\ h2a = <<>>) \/ apc = "off"

\* nothing is on the wire and the Control ECU has nothing left to answer
AuthSilent == a2h = <<>> /\ HmiTurn

\* WaitForResponse returns: a byte has arrived, or the wait has run out
ResponseReady == a2h # <<>> \/ AuthSilent

\* the value WaitForResponse returns
WaitForResponse ==
    IF a2h # <<>>
    THEN [b |-> Head(a2h).b, k |-> Head(a2h).k, c |-> Head(a2h).c, at |-> hpc, for |-> hcmd]
    ELSE [b |-> RESP_TIMEOUT, k |-> "timeout", c |-> hcmd, at |-> hpc, for |-> hcmd]

Consume == a2h' = IF a2h # <<>> THEN Tail(a2h) ELSE a2h

\* CheckPasswordExists: the command is sent
CheckPasswordExists_Send ==
    /\ hpc = "boot"
    /\ HmiTurn
    /\ HmiSend(<<CMD_CHECK_PASSWORD>>)
    /\ hpc' = "chk"
    /\ UNCHANGED <<avars, pvars, a2h, frames, attempts, dlg, dlgResp, dlgLock, taken>>

\* CheckPasswordExists: bounded wait, then main() enters the setup loop or the menu
CheckPasswordExists_Recv ==
    /\ hpc = "chk"
    /\ HmiTurn
    /\ ResponseReady
    /\ taken' = WaitForResponse
    /\ Consume
    /\ hpc' = IF WaitForResponse.k # "timeout" /\ WaitForResponse.b = RESP_PASSWORD_EXISTS
              THEN "ret" ELSE "setup"
    /\ UNCHANGED <<avars, pvars, h2a, frames, attempts, hcmd, dlg, dlgResp, dlgLock>>

\* SetupPassword: two keypad entries, then the command with both
SetupPassword_Send ==
    /\ hpc = "setup"
    /\ HmiTurn
    /\ \E password1 \in UserPwds : \E password2 \in UserPwds :
          HmiSend(<<CMD_SETUP_PASSWORD>> \o password1 \o password2)
    /\ hpc' = "setup_wait"
    /\ UNCHANGED <<avars, pvars, a2h, frames, attempts, dlg, dlgResp, dlgLock, taken>>

SetupPassword_RecvOnce ==
    /\ hpc = "setup_wait"
    /\ HmiTurn
    /\ ResponseReady
    /\ taken' = WaitForResponse
    /\ Consume
    /\ hpc' = "ret"
    /\ UNCHANGED <<avars, pvars, h2a, frames, attempts, hcmd, dlg, dlgResp, dlgLock>>

\* SetupPassword: the response; every caller repeats it until it returns true
SetupPassword_Recv ==
    /\ hpc = "setup_wait"
    /\ HmiTurn
    /\ ResponseReady
    /\ taken' = WaitForResponse
    /\ Consume
    /\ hpc' = IF WaitForResponse.b = RESP_PASSWORD_MATCH THEN "ret" ELSE "setup"
    /\ UNCHANGED <<avars, pvars, h2a, frames, attempts, hcmd, dlg, dlgResp, dlgLock>>

\* main loop: back at the menu, the locals of the dialog are gone
DisplayMainMenu ==
    /\ hpc = "ret"
    /\ HmiTurn
    /\ hpc' = "menu"
    /\ attempts' = 0
    /\ dlg' = "none"
    /\ dlgResp' = <<>>
    /\ dlgLock' = 0
    /\ taken' = NoByte
    /\ UNCHANGED <<avars, pvars, h2a, a2h, frames, hcmd>>

\* main loop: a menu key starts a dialog
MenuKey ==
    /\ hpc = "menu"
    /\ HmiTurn
    /\ \E key \in {"open", "change", "timeout", "erase"} :
          /\ dlg' = key
          /\ hpc' = CASE key = "open" -> "od_send"
                      [] key = "change" -> "cp_send"
                      [] key = "timeout" -> "st_send"
                      [] key = "erase" -> "er_send"
    /\ attempts' = 0
    /\ UNCHANGED <<avars, pvars, h2a, a2h, frames, hcmd, dlgResp, dlgLock, taken>>

FailedAttemptOffByOne(retry) ==
    /\ attempts' = attempts + 1
    /\ IF attempts + 1 <= MAX_ATTEMPTS
          THEN /\ hpc' = retry
               /\ UNCHANGED <<h2a, hcmd, dlgLock>>
          ELSE /\ HmiSend(<<CMD_TRIGGER_LOCKOUT>>)
               /\ dlgLock' = dlgLock + 1
               /\ hpc' = "lockout"

\* the attempt loop shared by HandleOpenDoor and HandleChangePassword: the
\* response was not PasswordMatch
FailedAttempt(retry) ==
    /\ attempts' = attempts + 1
    /\ IF attempts + 1 < MAX_ATTEMPTS
          THEN /\ hpc' = retry
               /\ UNCHANGED <<h2a, hcmd, dlgLock>>
          ELSE \* Max attempts reached - trigger lockout
               /\ HmiSend(<<CMD_TRIGGER_LOCKOUT>>)
               /\ dlgLock' = dlgLock + 1
               /\ hpc' = "lockout"

\* HandleOpenDoor (HMI): password entry and command
HmiOpenDoor_Send ==
    /\ hpc = "od_send"
    /\ HmiTurn
    /\ \E password \in UserPwds : HmiSend(<<CMD_OPEN_DOOR>> \o password)
    /\ hpc' = "od_wait"
    /\ UNCHANGED <<avars, pvars, a2h, frames, attempts, dlg, dlgResp, dlgLock, taken>>

\* HandleOpenDoor (HMI): the response to the command
HmiOpenDoor_Recv ==
    /\ hpc = "od_wait"
    /\ HmiTurn
    /\ ResponseReady
    /\ taken' = WaitForResponse
    /\ Consume
    /\ dlgResp' = Append(dlgResp, WaitForResponse.b)
    /\ IF WaitForResponse.b = RESP_PASSWORD_MATCH
          THEN /\ hpc' = "od_unl"
               /\ UNCHANGED <<h2a, hcmd, attempts, dlgLock>>
          ELSE FailedAttempt("od_send")
    /\ UNCHANGED <<avars, pvars, frames, dlg>>

\* HandleOpenDoor (HMI): wait for the unlocking message
HmiOpenDoor_Unlocking ==
    /\ hpc = "od_unl"
    /\ HmiTurn
    /\ ResponseReady
    /\ taken' = WaitForResponse
    /\ Consume
    /\ hpc' = "od_cs"
    /\ UNCHANGED <<avars, pvars, h2a, frames, attempts, hcmd, dlg, dlgResp, dlgLock>>

\* HandleOpenDoor (HMI): wait for the countdown start signal
HmiOpenDoor_CountdownStart ==
    /\ hpc = "od_cs"
    /\ HmiTurn
    /\ ResponseReady
    /\ taken' = WaitForResponse
    /\ Consume
    /\ hpc' = IF WaitForResponse.b = RESP_COUNTDOWN_START THEN "od_count" ELSE "od_locked"
    /\ UNCHANGED <<avars, pvars, h2a, frames, attempts, hcmd, dlg, dlgResp, dlgLock>>

\* HandleOpenDoor (HMI): while (countingDown), one received byte; no timeout here
HmiOpenDoor_Countdown ==
    /\ hpc = "od_count"
    /\ HmiTurn
    /\ a2h # <<>>
    /\ taken' = WaitForResponse
    /\ Consume
    /\ hpc' = IF Head(a2h).b = RESP_DOOR_LOCKING THEN "od_locked" ELSE "od_count"
    /\ UNCHANGED <<avars, pvars, h2a, frames, attempts, hcmd, dlg, dlgResp, dlgLock>>

\* HandleOpenDoor (HMI): wait for the locked message, then return
HmiOpenDoor_Locked ==
    /\ hpc = "od_locked"
    /\ HmiTurn
    /\ ResponseReady
    /\ taken' = WaitForResponse
    /\ Consume
    /\ hpc' = "ret"
    /\ UNCHANGED <<avars, pvars, h2a, frames, attempts, hcmd, dlg, dlgResp, dlgLock>>

\* DelayMs(LOCKOUT_DURATION_MS), then return to the menu
LockoutDelay ==
    /\ hpc = "lockout"
    /\ HmiTurn
    /\ hpc' = "ret"
    /\ UNCHANGED <<avars, pvars, h2a, a2h, frames, attempts, hcmd, dlg, dlgResp, dlgLock, taken>>

\* HandleChangePassword (HMI): old password entry and command
HmiChangePassword_Send ==
    /\ hpc = "cp_send"
    /\ HmiTurn
    /\ \E password \in UserPwds : HmiSend(<<CMD_CHANGE_PASSWORD>> \o password)
    /\ hpc' = "cp_wait"
    /\ UNCHANGED <<avars, pvars, a2h, frames, attempts, dlg, dlgResp, dlgLock, taken>>

\* HandleChangePassword (HMI): the response; on a match the setup loop follows
HmiChangePassword_Recv ==
    /\ hpc = "cp_wait"
    /\ HmiTurn
    /\ ResponseReady
    /\ taken' = WaitForResponse
    /\ Consume
    /\ dlgResp' = Append(dlgResp, WaitForResponse.b)
    /\ IF WaitForResponse.b = RESP_PASSWORD_MATCH
          THEN /\ hpc' = "setup"
               /\ UNCHANGED <<h2a, hcmd, attempts, dlgLock>>
          ELSE FailedAttempt("cp_send")
    /\ UNCHANGED <<avars, pvars, frames, dlg>>

\* HandleSetTimeout (HMI): potentiometer value, password entry and command
HmiSetTimeout_Send ==
    /\ hpc = "st_send"
    /\ HmiTurn
    /\ \E timeout \in UserTimeouts : \E password \in UserPwds :
          HmiSend(<<CMD_SET_TIMEOUT>> \o password \o <<timeout>>)
    /\ hpc' = "st_wait"
    /\ UNCHANGED <<avars, pvars, a2h, frames, attempts, dlg, dlgResp, dlgLock, taken>>

\* HandleSetTimeout (HMI): one response, then return whatever it is
HmiSetTimeout_Recv ==
    /\ hpc = "st_wait"
    /\ HmiTurn
    /\ ResponseReady
    /\ taken' = WaitForResponse
    /\ Consume
    /\ dlgResp' = Append(dlgResp, WaitForResponse.b)
    /\ hpc' = "ret"
    /\ UNCHANGED <<avars, pvars, h2a, frames, attempts, hcmd, dlg, dlgLock>>

\* HandleEraseEEPROM (HMI): password entry and command
HmiEraseEEPROM_Send ==
    /\ hpc = "er_send"
    /\ HmiTurn
    /\ \E password \in UserPwds : HmiSend(<<CMD_ERASE_EEPROM>> \o password)
    /\ hpc' = "er_wait"
    /\ UNCHANGED <<avars, pvars, a2h, frames, attempts, dlg, dlgResp, dlgLock, taken>>

\* HandleEraseEEPROM (HMI): one response; after EepromErased the setup loop
HmiEraseEEPROM_Recv ==
    /\ hpc = "er_wait"
    /\ HmiTurn
    /\ ResponseReady
    /\ taken' = WaitForResponse
    /\ Consume
    /\ dlgResp' = Append(dlgResp, WaitForResponse.b)
    /\ hpc' = IF WaitForResponse.b = RESP_EEPROM_ERASED THEN "setup" ELSE "ret"
    /\ UNCHANGED <<avars, pvars, h2a, frames, attempts, hcmd, dlg, dlgLock>>

HMI ==
    \/ CheckPasswordExists_Send
    \/ CheckPasswordExists_Recv
    \/ SetupPassword_Send
    \/ SetupPassword_Recv
    \/ DisplayMainMenu
    \/ MenuKey
    \/ HmiOpenDoor_Send
    \/ HmiOpenDoor_Recv
    \/ HmiOpenDoor_Unlocking
    \/ HmiOpenDoor_CountdownStart
    \/ HmiOpenDoor_Countdown
    \/ HmiOpenDoor_Locked
    \/ LockoutDelay
    \/ HmiChangePassword_Send
    \/ HmiChangePassword_Recv
    \/ HmiSetTimeout_Send
    \/ HmiSetTimeout_Recv
    \/ HmiEraseEEPROM_Send
    \/ HmiEraseEEPROM_Recv

Next == Control \/ HMI

Spec == Init /\ [][Next]_vars

\* The HMI restarts at any moment (reset or power cycle of the HMI alone):
\* main() starts again, UART5_Init empties its receive FIFO, its locals are
\* gone.  What it had sent stays in the Control ECU's receive FIFO, and the
\* Control ECU goes on with what it is doing.
HmiReboot ==
    /\ hpc # "boot"
    /\ hpc' = "boot"
    /\ a2h' = <<>>
    /\ attempts' = 0
    /\ dlg' = "none"
    /\ dlgResp' = <<>>
    /\ dlgLock' = 0
    /\ taken' = NoByte
    /\ UNCHANGED <<avars, pvars, h2a, frames, hcmd>>

NextHmiReboot == Next \/ HmiReboot

SpecHmiReboot == Init /\ [][NextHmiReboot]_vars

\* The positions of the HMI that block on a receive: every WaitForResponse
\* call and the countdown loop of HandleOpenDoor
HmiReceives ==
    {"chk", "setup_wait", "od_wait", "od_unl", "od_cs", "od_count", "od_locked",
     "cp_wait", "st_wait", "er_wait"}

\* The Control ECU loses power for good at any point of an exchange: whatever
\* it had still to transmit is never sent, its handler's locals and its receive
\* FIFO are lost
PowerOff ==
    /\ apc # "off"
    /\ apc' = "off"
    /\ motor' = "stop"
    /\ h2a' = <<>>
    /\ op' = 0
    /\ pw1' = <<>>
    /\ pw2' = <<>>
    /\ cnt' = 0
    /\ pre' = NoSnapshot
    /\ prevAuth' = FALSE
    /\ opc' = 0
    /\ UNCHANGED <<eeprom, g_storedPassword, g_autoLockTimeout, out, lastSetup,
                   a2h, frames, hvars, pvars>>

NextSilent == Next \/ PowerOff

\* Each ECU is a processor of its own that keeps running while it is powered
SpecSilent ==
    /\ Init
    /\ [][NextSilent]_vars
    /\ WF_vars(Control)
    /\ WF_vars(HMI)

\* ===================================================================== claims
IsPrefix(a, b) == Len(a) <= Len(b) /\ a = SubSeq(b, 1, Len(a))

GatedOps == {CMD_OPEN_DOOR, CMD_CHANGE_PASSWORD, CMD_SET_TIMEOUT, CMD_ERASE_EEPROM}

\* the response stream the claim expects for a granted OpenDoor under timeout t
DoorSequence(t) ==
    <<RESP_PASSWORD_MATCH, RESP_DOOR_UNLOCKING, RESP_COUNTDOWN_START>>
    \o [i \in 1..t |-> t + 1 - i]
    \o <<RESP_DOOR_LOCKING, RESP_DOOR_LOCKED>>

\* the payload of the OpenDoor being handled is complete and has been compared
OpenDoorDecided == op = CMD_OPEN_DOOR /\ Len(pw1) = PASSWORD_LENGTH /\ apc # "recv"

\* C1: an OpenDoor whose 5-character payload equals the in-memory credential
\* makes the Control ECU emit exactly PasswordMatch, DoorUnlocking,
\* CountdownStart, T, T-1, ..., 1, DoorLocking, DoorLocked, for the timeout T
\* it holds: at every moment what it has emitted is a leading part of that
\* sequence, and when the handler returns it is the whole sequence.
C1_DoorSequenceExact ==
    (OpenDoorDecided /\ pw1 = pre.cred) =>
        /\ out # <<>>
        /\ IsPrefix(out, DoorSequence(pre.T))
        /\ (apc = "done" => out = DoorSequence(pre.T))

C1_Witness ==
    /\ OpenDoorDecided
    /\ pw1 = pre.cred
    /\ apc = "done"
    /\ pre.T = 20
    /\ Len(out) = 25

\* C2: the motor runs only while an OpenDoor whose payload equals the
\* in-memory credential is handled; an OpenDoor with a payload that differs
\* from the in-memory credential emits the single byte PasswordMismatch and
\* never starts the motor.
C2_MismatchNoActuation ==
    /\ motor # "stop" => (OpenDoorDecided /\ pw1 = pre.cred)
    /\ (OpenDoorDecided /\ pw1 # pre.cred) =>
            (apc = "done" /\ out = <<RESP_PASSWORD_MISMATCH>> /\ motor = "stop")

\* C3: while the stored ValidityMarker word is not the sentinel, no
\* password-gated opcode is answered with a match outcome, whatever the
\* payload, and the motor is not started.
C3_NoMatchWithoutMarker ==
    (op \in GatedOps /\ Len(pw1) = PASSWORD_LENGTH /\ apc # "recv"
        /\ ~IsPasswordValid(pre.ee)) =>
            (apc = "done" /\ out = <<RESP_PASSWORD_MISMATCH>> /\ motor = "stop")

\* C4: once a valid credential exists, the stored credential words and the
\* in-memory credential change only in a Setup-password exchange that follows
\* a command in which the credential was presented and matched (or by the
\* matched Erase itself).
C4_CredentialChangeAuthorized ==
    [][(/\ IsPasswordValid(eeprom)
        /\ \/ g_storedPassword' # g_storedPassword
           \/ eeprom'[EEPROM_PASSWORD_OFFSET] # eeprom[EEPROM_PASSWORD_OFFSET]
           \/ eeprom'[EEPROM_PASSWORD_OFFSET + 1] # eeprom[EEPROM_PASSWORD_OFFSET + 1])
        => \/ op = CMD_SETUP_PASSWORD /\ prevAuth
           \/ op = CMD_ERASE_EEPROM]_vars

\* C10: the in-memory AutoLockTimeout is in [5,30] in every reachable state.
C10_TimeoutInRange ==
    g_autoLockTimeout >= TIMEOUT_MIN_SECONDS /\ g_autoLockTimeout <= TIMEOUT_MAX_SECONDS

\* C11: every countdown value the Control ECU transmits during a door sequence
\* is a byte in [1,30].
C11_CountdownValuesInRange ==
    \A i \in 1..Len(a2h) :
        a2h[i].k = "count" => (a2h[i].b >= 1 /\ a2h[i].b <= TIMEOUT_MAX_SECONDS)

\* C12: no byte the Control ECU transmits, response code or countdown value,
\* equals the TimedOut sentinel 0xFF.
C12_SentinelNeverOnWire ==
    \A i \in 1..Len(a2h) : a2h[i].b # RESP_TIMEOUT

\* C13: Setup-password answers PasswordMatch exactly when its two payloads are
\* equal in all 5 characters; on a match the credential words and the marker
\* are stored and the in-memory credential is that payload; on a mismatch it
\* answers PasswordMismatch and storage and the in-memory credential are as
\* they were at dispatch.
C13_SetupPasswordIffEqual ==
    (op = CMD_SETUP_PASSWORD /\ apc = "done") =>
        IF pw1 = pw2
        THEN /\ out = <<RESP_PASSWORD_MATCH>>
             /\ eeprom[EEPROM_PASSWORD_OFFSET] = PackWord0(pw1)
             /\ eeprom[EEPROM_PASSWORD_OFFSET + 1] = PackWord1(pw1)
             /\ IsPasswordValid(eeprom)
             /\ g_storedPassword = pw1
        ELSE /\ out = <<RESP_PASSWORD_MISMATCH>>
             /\ eeprom = pre.ee
             /\ g_storedPassword = pre.cred

\* C14: a Set-timeout whose 5 password characters and timeout byte are in the
\* receive queue consumes exactly these six bytes, whether or not the password
\* matches, so that the byte sent after the timeout byte is the next one to be
\* dispatched; with a payload equal to the in-memory credential the timeout is
\* stored and TimeoutSaved is answered; otherwise PasswordMismatch is answered
\* and the stored and in-memory timeout are unchanged.
C14_SetTimeoutConsumesSix ==
    (op = CMD_SET_TIMEOUT /\ apc = "done" /\ Len(pre.rx) >= PASSWORD_LENGTH + 1) =>
        /\ pw1 = SubSeq(pre.rx, 1, PASSWORD_LENGTH)
        /\ [i \in 1..Len(h2a) |-> h2a[i].b]
              = SubSeq(pre.rx, PASSWORD_LENGTH + 2, Len(pre.rx))
        /\ IF pw1 = pre.cred
           THEN /\ out = <<RESP_TIMEOUT_SAVED>>
                /\ g_autoLockTimeout = pre.rx[PASSWORD_LENGTH + 1]
                /\ eeprom = SaveTimeout(pre.ee, pre.rx[PASSWORD_LENGTH + 1])
           ELSE /\ out = <<RESP_PASSWORD_MISMATCH>>
                /\ g_autoLockTimeout = pre.T
                /\ eeprom = pre.ee

\* C15: an Erase whose payload equals the in-memory credential erases every
\* storage word, resets the in-memory credential and timeout to their defaults
\* and answers EepromErased; from then on the marker stays invalid, and
\* CheckPasswordExists answers NoPassword, until a Setup-password succeeds; an
\* Erase with any other payload answers PasswordMismatch and leaves storage,
\* credential and timeout unchanged.
C15_EraseResetsOrLeaves ==
    [][/\ (op = CMD_ERASE_EEPROM /\ apc = "recv" /\ apc' = "done") =>
            IF pw1 = g_storedPassword
            THEN /\ out' = <<RESP_EEPROM_ERASED>>
                 /\ eeprom' = EEPROM_MassErase
                 /\ g_storedPassword' = PW_00000
                 /\ g_autoLockTimeout' = DEFAULT_TIMEOUT
            ELSE /\ out' = <<RESP_PASSWORD_MISMATCH>>
                 /\ UNCHANGED <<eeprom, g_storedPassword, g_autoLockTimeout>>
       /\ (~IsPasswordValid(eeprom) /\ IsPasswordValid(eeprom')) =>
            (op = CMD_SETUP_PASSWORD /\ strcmp(pw1, pw2) = 0)
       /\ (apc = "idle" /\ op' = CMD_CHECK_PASSWORD /\ ~IsPasswordValid(eeprom)) =>
            out' = <<RESP_NO_PASSWORD>>]_vars

\* C16: Change-password on the Control ECU reads one 5-character payload,
\* answers with the single byte PasswordMatch if the payload equals the
\* in-memory credential and PasswordMismatch otherwise, and leaves storage,
\* the in-memory credential and the timeout as they were at dispatch.
C16_ChangePasswordOnlyCompares ==
    (op = CMD_CHANGE_PASSWORD /\ apc = "done") =>
        /\ out = <<IF pw1 = pre.cred THEN RESP_PASSWORD_MATCH ELSE RESP_PASSWORD_MISMATCH>>
        /\ Len(pre.rx) >= PASSWORD_LENGTH =>
              /\ pw1 = SubSeq(pre.rx, 1, PASSWORD_LENGTH)
              /\ IsPrefix(SubSeq(pre.rx, PASSWORD_LENGTH + 1, Len(pre.rx)),
                          [i \in 1..Len(h2a) |-> h2a[i].b])
        /\ eeprom = pre.ee
        /\ g_storedPassword = pre.cred
        /\ g_autoLockTimeout = pre.T

\* C17: Check-password-exists reads no payload (what is queued behind the
\* opcode stays queued), answers with the single byte PasswordExists when the
\* stored marker word is the sentinel and NoPassword otherwise, and leaves
\* storage, the in-memory credential and the timeout as they were.
C17_CheckPasswordPure ==
    (op = CMD_CHECK_PASSWORD /\ apc = "done") =>
        /\ out = <<IF pre.ee[EEPROM_VALID_FLAG_OFFSET] = PASSWORD_VALID_MARKER
                   THEN RESP_PASSWORD_EXISTS ELSE RESP_NO_PASSWORD>>
        /\ [i \in 1..Len(h2a) |-> h2a[i].b] = pre.rx
        /\ eeprom = pre.ee
        /\ g_storedPassword = pre.cred
        /\ g_autoLockTimeout = pre.T
        /\ motor = "stop"

C17_Witness ==
    /\ op = CMD_CHECK_PASSWORD
    /\ apc = "done"
    /\ out = <<RESP_NO_PASSWORD>>
    /\ pre.rx = <<CMD_CHECK_PASSWORD>>
    /\ pre.cred = PW_00000

\* C18: on TriggerLockout the Control ECU reads no payload and checks no
\* password: it emits the single byte SystemLocked, then runs all
\* LOCKOUT_DURATION alarm cycles before it returns to read the channel, and
\* storage, the in-memory credential and the timeout stay as they were.
C18_LockoutAlarmRunsFully ==
    (op = CMD_TRIGGER_LOCKOUT) =>
        /\ out = <<RESP_SYSTEM_LOCKED>>
        /\ apc \in {"alarm", "done"}
        /\ apc = "alarm" => cnt < LOCKOUT_DURATION
        /\ apc = "done" => cnt = LOCKOUT_DURATION
        /\ [i \in 1..Len(h2a) |-> h2a[i].b] = pre.rx
        /\ eeprom = pre.ee
        /\ g_storedPassword = pre.cred
        /\ g_autoLockTimeout = pre.T

C18_Witness ==
    /\ op = CMD_TRIGGER_LOCKOUT
    /\ apc = "done"
    /\ cnt = LOCKOUT_DURATION
    /\ pre.rx = <<CMD_CHECK_PASSWORD>>
    /\ IsPasswordValid(eeprom)

IsDigits(p) == Len(p) = PASSWORD_LENGTH /\ \A i \in 1..Len(p) : p[i] >= 48 /\ p[i] <= 57

\* C19: on unprogrammed storage CheckPasswordExists is answered NoPassword;
\* once a Setup-password with two equal 5-digit payloads P was answered
\* PasswordMatch, every later CheckPasswordExists is answered PasswordExists
\* and every later OpenDoor with payload P is answered PasswordMatch followed
\* by the whole door sequence, whether or not the Control ECU has rebooted in
\* between.
C19_SetupThenOpenAcrossReboot ==
    /\ (op = CMD_CHECK_PASSWORD /\ apc = "done" /\ pre.ee = EEPROM_MassErase) =>
            out = <<RESP_NO_PASSWORD>>
    /\ (op = CMD_CHECK_PASSWORD /\ apc = "done" /\ IsDigits(lastSetup.p)) =>
            out = <<RESP_PASSWORD_EXISTS>>
    /\ (OpenDoorDecided /\ apc # "boot" /\ IsDigits(lastSetup.p) /\ pw1 = lastSetup.p) =>
            /\ out # <<>>
            /\ IsPrefix(out, DoorSequence(pre.T))
            /\ (apc = "done" => out = DoorSequence(pre.T))

C19_Witness ==
    /\ op = CMD_OPEN_DOOR
    /\ apc = "done"
    /\ lastSetup = [p |-> PW_00000, rebooted |-> TRUE]
    /\ pw1 = PW_00000
    /\ out = DoorSequence(DEFAULT_TIMEOUT)
    /\ eeprom[EEPROM_TIMEOUT_OFFSET] = ERASED_WORD

\* C20: when power is lost at any point of a Setup-password, the stored marker
\* is the sentinel only if the two stored credential words are wholly the new
\* credential or wholly the credential that was valid before, never a mix.
C20_NoValidMarkerOnPartialSave ==
    (apc = "boot" /\ op = CMD_SETUP_PASSWORD /\ IsPasswordValid(eeprom)) =>
        \/ /\ Len(pw1) = PASSWORD_LENGTH
           /\ eeprom[EEPROM_PASSWORD_OFFSET] = PackWord0(pw1)
           /\ eeprom[EEPROM_PASSWORD_OFFSET + 1] = PackWord1(pw1)
        \/ /\ IsPasswordValid(pre.ee)
           /\ eeprom[EEPROM_PASSWORD_OFFSET] = pre.ee[EEPROM_PASSWORD_OFFSET]
           /\ eeprom[EEPROM_PASSWORD_OFFSET + 1] = pre.ee[EEPROM_PASSWORD_OFFSET + 1]

\* C21: for every credential of 5 decimal digits, unpacking the two words that
\* SavePassword packed yields exactly that credential, whatever the low three
\* bytes of word 1 hold.
C21_CredentialRoundTrip ==
    (fin.f = "SavePassword" /\ fout.set) => fout.v = fin.C

C21_Witness ==
    /\ fin.f = "SavePassword"
    /\ fin.C = Pw(49, 48, 53, 57, 57)
    /\ fin.low = <<255, 255, 255>>
    /\ fout.set
    /\ fout.v = Pw(49, 48, 53, 57, 57)

\* the value of a stored word is in [5,30]
WordInRange(w) ==
    /\ w[1] = 0 /\ w[2] = 0 /\ w[3] = 0
    /\ w[4] >= TIMEOUT_MIN_SECONDS /\ w[4] <= TIMEOUT_MAX_SECONDS

\* C22: for every stored timeout word the loaded timeout is in [5,30]; a word
\* whose value is in [5,30] loads as that value and every other word, also one
\* whose low byte alone is in range, loads as 5.
C22_LoadTimeoutClamps ==
    (fin.f = "LoadTimeout" /\ fout.set) =>
        /\ fout.v >= TIMEOUT_MIN_SECONDS /\ fout.v <= TIMEOUT_MAX_SECONDS
        /\ fout.v = IF WordInRange(fin.w) THEN fin.w[4] ELSE DEFAULT_TIMEOUT

\* C23: IsPasswordValid is true exactly when the stored marker word is the
\* sentinel; it is false for each of its 32 single-bit corruptions and for
\* the unprogrammed word.
C23_MarkerExactEquality ==
    (fin.f = "IsPasswordValid" /\ fout.set) =>
        /\ fout.v = (fin.w = PASSWORD_VALID_MARKER)
        /\ (fin.w \in SingleBitCorruptions \cup {ERASED_WORD}) => fout.v = FALSE

C23_Witness ==
    /\ fin.f = "IsPasswordValid"
    /\ fin.w = <<170, 85, 170, 84>>
    /\ fin.w \in SingleBitCorruptions
    /\ fout.set
    /\ fout.v = FALSE

\* C24: after a Setup-password answered PasswordMatch the in-memory credential
\* is exactly the 5 received characters, whatever their values, and a
\* password-gated opcode is answered with its match outcome only if all 5
\* characters of its payload equal the in-memory credential.
C24_CredentialIsFiveCharacters ==
    /\ (op = CMD_SETUP_PASSWORD /\ apc = "done" /\ out = <<RESP_PASSWORD_MATCH>>) =>
            g_storedPassword = pw1
    /\ (op \in GatedOps /\ out # <<>> /\ out[1] # RESP_PASSWORD_MISMATCH) =>
            pw1 = pre.cred

\* C25: a payload slot whose byte has not arrived is filled with its default
\* ('0' for a password character, 5 for the timeout byte), every handler of a
\* payload-bearing opcode returns having emitted a response, and from every
\* state the Control ECU is eventually back at idle dispatch.
C25_NeverHangsOnTruncation ==
    /\ [][/\ (apc = "recv" /\ h2a = <<>> /\ pw1' # pw1) => pw1' = Append(pw1, CHAR_ZERO)
          /\ (apc = "recv" /\ h2a = <<>> /\ pw2' # pw2) => pw2' = Append(pw2, CHAR_ZERO)
          /\ (apc = "recv" /\ op = CMD_SET_TIMEOUT /\ h2a = <<>> /\ apc' = "done"
                /\ out' = <<RESP_TIMEOUT_SAVED>>) => g_autoLockTimeout' = DEFAULT_TIMEOUT]_vars
    /\ []((op \in PayloadOps /\ apc = "done") => (Len(pw1) = PASSWORD_LENGTH /\ out # <<>>))
    /\ ((apc # "idle") ~> (apc = "idle"))

C25_Witness ==
    /\ op = CMD_ERASE_EEPROM
    /\ apc = "done"
    /\ pre.rx = <<>>
    /\ pw1 = PW_00000
    /\ pre.cred = PW_11111
    /\ out = <<RESP_PASSWORD_MISMATCH>>

\* C26: a payload-bearing opcode of which one or more payload slots were
\* filled with their default is answered with PasswordMismatch and has no
\* effect: nothing is saved or erased and the door sequence is not run.
C26_TruncatedPayloadMismatches ==
    (op \in PayloadOps /\ pre.fill > 0) =>
        /\ apc \in {"recv", "done"}
        /\ motor = "stop"
        /\ eeprom = pre.ee
        /\ g_storedPassword = pre.cred
        /\ g_autoLockTimeout = pre.T
        /\ apc = "done" => out = <<RESP_PASSWORD_MISMATCH>>

\* C27: while the door sequence or the lockout alarm runs, the Control ECU
\* takes no byte from the channel; bytes arriving meanwhile leave the emitted
\* sequence as it is (all door phases, all alarm cycles) and stay queued in
\* arrival order until the Control ECU is back at idle dispatch, where the
\* oldest one is dispatched first.
C27_OneOpcodeToCompletion ==
    /\ [][/\ apc \in BusyStates => IsPrefix(h2a, h2a')
          /\ (apc = "idle" /\ apc' # "idle") => (op' = Head(h2a).b /\ h2a' = Tail(h2a))]_vars
    /\ [](apc \in (BusyStates \ {"alarm"}) =>
              (out # <<>> /\ IsPrefix(out, DoorSequence(pre.T))))
    /\ []((op = CMD_OPEN_DOOR /\ apc = "done" /\ out # <<RESP_PASSWORD_MISMATCH>>) =>
              out = DoorSequence(pre.T))
    /\ []((op = CMD_TRIGGER_LOCKOUT /\ apc = "done") =>
              (out = <<RESP_SYSTEM_LOCKED>> /\ cnt = LOCKOUT_DURATION))

C27_Witness ==
    /\ op = CMD_OPEN_DOOR
    /\ apc = "done"
    /\ out = DoorSequence(DEFAULT_TIMEOUT)
    /\ pre.rx = pw1
    /\ Len(h2a) = 2
    /\ h2a[1].b = CMD_TRIGGER_LOCKOUT
    /\ h2a[2].b = CMD_CHECK_PASSWORD

\* C28: a channel timeout is never a hang on the HMI side: whenever the HMI
\* blocks on a receive, it eventually leaves that receive, also when the Control
\* ECU stops transmitting in the middle of an exchange (stated for the commands
\* below the bound MaxCmds, after which the HMI sends nothing more)
C28_HmiReceiveReturns ==
    \A r \in HmiReceives : (hpc = r /\ hcmd < MaxCmds) ~> (hpc # r)

\* C29: persistence failures are swallowed.  When a word write fails during a
\* Setup-password with equal payloads or a Set-timeout with the stored password,
\* or the mass erase fails during an Erase with the stored password, the Control
\* ECU still sends the success response and still updates the credential or
\* timeout it holds in memory; the three handlers never send any byte other
\* than their four ordinary responses
PersistOps == {CMD_SETUP_PASSWORD, CMD_SET_TIMEOUT, CMD_ERASE_EEPROM}

C29_PersistenceFailuresSwallowed ==
    /\ [][/\ (/\ op = CMD_SETUP_PASSWORD /\ apc = "saved" /\ apc' = "done"
              /\ pw1 = pw2
              /\ eeprom # SavePassword(pre.ee, pw1))
             => (/\ out' = <<RESP_PASSWORD_MATCH>>
                 /\ strcmp(pw1, g_storedPassword') = 0)
          /\ (/\ op = CMD_SET_TIMEOUT /\ apc = "recv" /\ apc' = "done"
              /\ pw1 = g_storedPassword
              /\ h2a # <<>>
              /\ eeprom' # SaveTimeout(eeprom, Head(h2a).b))
             => (/\ out' = <<RESP_TIMEOUT_SAVED>>
                 /\ g_autoLockTimeout' = Head(h2a).b)
          /\ (/\ op = CMD_ERASE_EEPROM /\ apc = "recv" /\ apc' = "done"
              /\ pw1 = g_storedPassword
              /\ eeprom' # EEPROM_MassErase)
             => (/\ out' = <<RESP_EEPROM_ERASED>>
                 /\ g_storedPassword' = PW_00000
                 /\ g_autoLockTimeout' = DEFAULT_TIMEOUT)]_vars
    /\ [](op \in PersistOps =>
             \A i \in 1..Len(out) :
                 out[i] \in {RESP_PASSWORD_MATCH, RESP_PASSWORD_MISMATCH,
                             RESP_TIMEOUT_SAVED, RESP_EEPROM_ERASED})

\* a Setup-password was answered PasswordMatch although none of its writes took
\* effect: the credential in memory is not the persisted one
C29_Witness ==
    /\ eefault
    /\ op = CMD_SETUP_PASSWORD
    /\ apc = "done"
    /\ out = <<RESP_PASSWORD_MATCH>>
    /\ pw1 = PW_00000
    /\ g_storedPassword = PW_00000
    /\ eeprom = pre.ee
    /\ LoadPassword(eeprom) = PW_11111

\* ------------------------------------------------------------- HMI dialogs
Count(seq, b) == Cardinality({i \in 1..Len(seq) : seq[i] = b})

AttemptDialogs == {"open", "change"}
GatedDialogs == {"open", "change", "timeout", "erase"}

\* C5: in an open-door or change-password dialog, three consecutive
\* PasswordMismatch responses make the HMI send exactly one TriggerLockout;
\* TriggerLockout is sent at most once per dialog and only when three
\* responses, none of them PasswordMatch, were obtained; a PasswordMatch on
\* attempt 1, 2 or 3 ends the attempts with no TriggerLockout.
C5_LockoutExactlyOnce ==
    dlg \in AttemptDialogs =>
        /\ dlgLock <= 1
        /\ Len(dlgResp) <= 3
        /\ dlgResp = <<RESP_PASSWORD_MISMATCH, RESP_PASSWORD_MISMATCH, RESP_PASSWORD_MISMATCH>>
              => (dlgLock = 1 /\ hpc \in {"lockout", "ret"})
        /\ dlgLock = 1 => (Len(dlgResp) = 3 /\ Count(dlgResp, RESP_PASSWORD_MATCH) = 0)
        /\ Count(dlgResp, RESP_PASSWORD_MATCH) > 0 =>
              /\ dlgLock = 0
              /\ dlgResp[Len(dlgResp)] = RESP_PASSWORD_MATCH
              /\ Count(dlgResp, RESP_PASSWORD_MATCH) = 1
              /\ hpc \notin {"od_send", "od_wait", "cp_send", "cp_wait", "lockout"}

C5_Witness ==
    /\ dlg = "open"
    /\ dlgResp = <<RESP_PASSWORD_MISMATCH, RESP_PASSWORD_MISMATCH, RESP_PASSWORD_MISMATCH>>
    /\ dlgLock = 1
    /\ hpc = "lockout"

\* C6: the HMI's attempts counter is incremented only when the byte obtained
\* for the command is PasswordMismatch (never for the TimedOut sentinel or any
\* other byte), and TriggerLockout is sent only after three PasswordMismatch
\* responses were obtained in the dialog.
C6_OnlyMismatchCounts ==
    [][/\ attempts' = attempts + 1 => taken'.b = RESP_PASSWORD_MISMATCH
       /\ dlgLock' = dlgLock + 1 =>
             dlgResp' = <<RESP_PASSWORD_MISMATCH, RESP_PASSWORD_MISMATCH, RESP_PASSWORD_MISMATCH>>]_vars

\* C7: every password-gated dialog (open door, change password, set timeout,
\* erase) keeps an attempt counter in [0,3] that counts the dialog's
\* PasswordMismatch responses from 0, and on reaching 3 TriggerLockout is sent.
C7_AttemptCounterEveryDialog ==
    dlg \in GatedDialogs =>
        /\ attempts \in 0..3
        /\ attempts >= Count(dlgResp, RESP_PASSWORD_MISMATCH)
        /\ attempts <= Len(dlgResp)
        /\ attempts = 3 => dlgLock = 1

\* C8: the byte the HMI takes from its receive queue was emitted by the
\* Control ECU for the command the HMI sent last, and when the HMI sends a
\* command no byte is left unread in its receive queue.
C8_ResponseOrder ==
    [][/\ taken'.k \notin {"none", "timeout"} => taken'.c = taken'.for
       /\ hcmd' # hcmd => a2h' = <<>>]_vars

\* C9: in an open-door dialog the HMI leaves its countdown loop only on the
\* DoorLocking response; every countdown value of that dialog keeps it in the
\* loop.
C9_CountdownEndsOnDoorLocking ==
    (taken.at = "od_count" /\ taken.c = taken.for) =>
        /\ hpc = "od_locked" => (taken.k = "resp" /\ taken.b = RESP_DOOR_LOCKING)
        /\ taken.k = "count" => hpc = "od_count"

\* C30: two-step change-password flow on the HMI.  ChangeMatched: the HMI has
\* received PasswordMatch for a ChangePassword command of the dialog it is in
ChangeMatched ==
    dlg = "change" /\ \E i \in 1..Len(dlgResp) : dlgResp[i] = RESP_PASSWORD_MATCH

ChangeMismatched ==
    dlg = "change" /\ \E i \in 1..Len(dlgResp) : dlgResp[i] = RESP_PASSWORD_MISMATCH

\* the command the HMI sends in this step is Setup-password with two 5-digit entries
SendsSetupPassword ==
    /\ Len(h2a') = Len(h2a) + 1 + 2 * PASSWORD_LENGTH
    /\ h2a'[Len(h2a) + 1].b = CMD_SETUP_PASSWORD
    /\ \A i \in (Len(h2a) + 2)..Len(h2a') : h2a'[i].b \in 48..57

\* after PasswordMatch for ChangePassword every command the HMI sends is
\* Setup-password, and it leaves the dialog only on a PasswordMatch received for
\* a Setup-password
SetupUntilMatch ==
    /\ (ChangeMatched /\ hcmd' # hcmd) => SendsSetupPassword
    /\ (ChangeMatched /\ hpc # "ret" /\ hpc' = "ret")
           => (taken'.at = "setup_wait" /\ taken'.b = RESP_PASSWORD_MATCH)

\* C30 as stated: after PasswordMatch for a ChangePassword command the next
\* commands of the HMI are Setup-password until one is answered PasswordMatch;
\* after PasswordMismatch for ChangePassword the HMI sends no Setup-password in
\* that dialog
C30_TwoStepChangePassword ==
    [][/\ SetupUntilMatch
       /\ (ChangeMismatched /\ hcmd' # hcmd) => ~SendsSetupPassword]_vars

\* C30 (amended): after PasswordMatch for a ChangePassword command the next
\* commands of the HMI are Setup-password until one is answered PasswordMatch;
\* as long as no ChangePassword of the dialog has been answered PasswordMatch the
\* HMI sends no Setup-password in it
C30_SetupOnlyAfterChangeMatch ==
    [][/\ SetupUntilMatch
       /\ (dlg = "change" /\ ~ChangeMatched /\ hcmd' # hcmd) => ~SendsSetupPassword]_vars

\* a change dialog: one mismatch, then a match, a Setup-password with unequal
\* entries and a second one answered PasswordMatch
C30_Witness ==
    /\ dlg = "change"
    /\ dlgResp = <<RESP_PASSWORD_MISMATCH, RESP_PASSWORD_MATCH>>
    /\ hpc = "ret"
    /\ taken.at = "setup_wait"
    /\ taken.b = RESP_PASSWORD_MATCH
    /\ hcmd = 5
    /\ g_storedPassword = PW_00000

\* C31: reboot equivalence.  Whenever the Control ECU is in its main loop with
\* no handler running, the credential and the timeout it holds in memory are
\* what LoadPassword and LoadTimeout would load from the EEPROM words at that
\* moment (every storage operation succeeding)
C31_RebootEquivalence ==
    apc = "idle" =>
        /\ strcmp(g_storedPassword, LoadPassword(eeprom)) = 0
        /\ g_autoLockTimeout = LoadTimeout(eeprom)

\* C32: whenever the Control ECU is in its main loop the motor is stopped and
\* the door is locked.  The motor runs forward only in the unlock step and in
\* reverse only in the lock step; the unlock step is followed by a stop, the
\* countdown, the reverse actuation and a stop, ending with DoorLocked, and no
\* opcode is read in between; once DoorUnlocking has been sent DoorLocked is
\* eventually sent, whatever the timeout in 0..255
C32_DoorAlwaysRelocked ==
    /\ [](/\ motor = "cw" <=> apc = "unlocking"
          /\ motor = "ccw" <=> apc = "locking")
    /\ [][/\ apc = "unlocking" => (apc' = "countdown" /\ motor' = "stop" /\ cnt' = g_autoLockTimeout)
          /\ apc = "countdown" => (\/ apc' = "countdown" /\ motor' = "stop" /\ cnt' = cnt - 1
                                   \/ apc' = "locking" /\ motor' = "ccw" /\ cnt = 0)
          /\ apc = "locking" => (/\ apc' = "done" /\ motor' = "stop"
                                 /\ out' = Append(out, RESP_DOOR_LOCKED))
          /\ apc \in {"unlocking", "countdown", "locking"} => IsPrefix(h2a, h2a')]_vars
    /\ (apc = "unlocking" /\ g_autoLockTimeout \in 0..255)
           ~> (apc = "done" /\ motor = "stop" /\ out = DoorSequence(g_autoLockTimeout))

\* the longest sequence: timeout 255, the door has been locked again
C32_Witness ==
    /\ op = CMD_OPEN_DOOR
    /\ apc = "done"
    /\ motor = "stop"
    /\ pre.T = 255
    /\ Len(out) = 255 + 5
    /\ out = DoorSequence(255)

\* C33: a byte read by the main loop that is not one of the seven handled
\* opcodes is discarded: no response byte is sent and neither the EEPROM nor
\* the credential, the timeout or the motor changes.  This covers
\* CMD_VERIFY_PASSWORD and a password digit that arrived after its wait ran out
HandledOpcodes == {1, 3, 4, 5, 6, 7, 8}

C33_UnknownByteDiscarded ==
    [][(apc = "idle" /\ apc' # "idle" /\ Head(h2a).b \notin HandledOpcodes)
          => /\ apc' = "done"
             /\ h2a' = Tail(h2a)
             /\ a2h' = a2h
             /\ out' = out
             /\ UNCHANGED <<eeprom, g_storedPassword, g_autoLockTimeout, motor>>]_vars

\* the digit '1', sent too late for the payload it belonged to, has been read
\* as a command and dropped
C33_Witness ==
    /\ apc = "done"
    /\ op = 49
    /\ out = <<>>
    /\ a2h # <<>>

\* C34: the timeout byte of a Set-timeout is never dispatched as an opcode:
\* for every timeout value in [5,30] and whenever the byte arrives, also after
\* the wait for it has run out and the default was used, the main loop starts
\* no handler for it and nothing is sent in answer to it
C34_TimeoutByteNeverDispatched ==
    [][(apc = "idle" /\ apc' # "idle" /\ Head(h2a).c = -1)
          => (apc' = "done" /\ a2h' = a2h)]_vars

\* C35: persisted fields are independent.  The four words lie at distinct,
\* non-overlapping addresses; a Set-timeout changes only the word at offset 2,
\* a Setup-password only the words at offsets 0, 1 and 3 (one per write), and no
\* other command except Erase changes any word: OpenDoor, ChangePassword,
\* CheckPassword and TriggerLockout write nothing
C35_PersistedFieldsIndependent ==
    /\ [](\A a \in 0..3 : \A b \in 0..3 :
             a < b => CalculateAddress(0, a) + EEPROM_WORD_SIZE <= CalculateAddress(0, b))
    /\ [][/\ eeprom' # eeprom => op \in {CMD_SETUP_PASSWORD, CMD_SET_TIMEOUT, CMD_ERASE_EEPROM}
          /\ (op = CMD_SET_TIMEOUT /\ eeprom' # eeprom)
                => \A o \in {0, 1, 3} : eeprom'[o] = eeprom[o]
          /\ (op = CMD_SETUP_PASSWORD /\ eeprom' # eeprom)
                => /\ eeprom'[2] = eeprom[2]
                   /\ \E o \in {0, 1, 3} : \A q \in (0..3) \ {o} : eeprom'[q] = eeprom[q]]_vars

\* a Set-timeout has replaced the timeout word of a device holding a valid
\* credential; the credential and the marker are as before
C35_Witness ==
    /\ op = CMD_SET_TIMEOUT
    /\ apc = "done"
    /\ out = <<RESP_TIMEOUT_SAVED>>
    /\ eeprom[2] = <<0, 0, 0, 255>>
    /\ pre.ee[2] = <<0, 0, 0, 5>>
    /\ LoadPassword(eeprom) = PW_11111
    /\ IsPasswordValid(eeprom)

\* C36: at boot the HMI enters the initial Setup-password exchange only if the
\* Control ECU answered NoPassword to its CheckPasswordExists; while a valid
\* credential is stored, an HMI reboot at any moment never leads to the setup
\* loop, so no SetupPassword is sent and the credential stays as it is
C36_BootSetupOnlyOnNoPassword ==
    [][(hpc = "chk" /\ hpc' = "setup")
          => /\ taken'.k = "resp"
             /\ taken'.b = RESP_NO_PASSWORD
             /\ ~IsPasswordValid(eeprom)]_vars

=============================================================================
